---- MODULE Spec2Model ----
(***************************************************************************)
(* The link cache of the Link Navigation plugin (src/src/main.ts): the     *)
(* cache map, the map of loading promises, the dirty set, and the calls of *)
(* cacheLinkData that interleave on them; and one build of the link        *)
(* hierarchy (renderLinkHierarchy): the inward walk, the sort of its list, *)
(* and the outward walk, over a fixed link graph.                          *)
(*                                                                         *)
(* Time is counted in units of 5000 ms: the 10000 ms loading timeout is 2  *)
(* units, the 5000 ms notice cooldown is 1 unit.  An extraction (one call  *)
(* of getLinks) is identified by its index in exts; a LinkSet value is     *)
(* identified by the extraction that produced it.                          *)
(*                                                                         *)
(* Two fields are bookkeeping of the model, not of the program: inv, in a  *)
(* pending extraction's record and in the entry it stores, says that       *)
(* invalidateCache ran for its document while it was pending; removed, in  *)
(* a suspended call's record, is the value of the entry that a forced      *)
(* refresh deleted before the lookup.                                      *)
(***************************************************************************)
EXTENDS Integers, Sequences, FiniteSets, TLC

\* ---- bounds of the model ----
MaxTime == 3
MaxExt == 3
NumCallers == 2

\* ---- program constants and settings (scaled to the time unit) ----
cacheTimeout == 2
LOADING_TIMEOUT == 2
CLEANUP_NOTICE_COOLDOWN == 1

Callers == 1..NumCallers
NoExt == 0
NoKey == "-"
NoRun == <<>>
NoFileCache == <<>>
NoLinkData == <<>>
NoTimer == 0

VARIABLES
    files,            \* vault.getFiles(), in its order
    maxCacheSize,     \* the field maxCacheSize (200 in the source, scaled down)
    now,              \* Date.now()
    cache,            \* Map<string, CacheEntry>, in insertion order
    loadingPromises,  \* Map<string, Promise<CacheEntry>>: doc -> extraction or NoExt
    dirtyCache,       \* Set<string>
    lastCleanupNotice,
    exts,             \* the getLinks calls started so far
    call,             \* per caller: the cacheLinkData call it is suspended in
    ret,              \* per caller: what the last step returned to it, if anything
    evicted           \* the oldestKey that the last step deleted, NoKey if it evicted nothing

\* the state of the link cache
cacheVars == <<files, maxCacheSize, now, cache, loadingPromises, dirtyCache, lastCleanupNotice,
               exts, call, ret, evicted>>

\* ---- one build of the link hierarchy (renderLinkHierarchy) ----
VARIABLES
    links,            \* metadataCache.resolvedLinks: document -> the documents it links to
    boards,           \* the documents of the vault that are canvas boards (extension 'canvas')
    maxDepth,         \* the field maxDepth, set from the depth input
    pc,               \* where the build is: "idle", "inlinks", "outlinks", "done", "failed"
    file,             \* the start document
    depthArg,         \* the maxDepth argument of the walk that is running
    inlinkQueue,      \* inward walk: the queue of { file, depth }
    inlinkMap,        \* inward walk: Map path -> { depth }, in insertion order
    processedLinks,   \* the processedLinks set of the walk that is running
    maxInlinkDepth,   \* inward walk: the value it returns
    rendered,         \* inward walk: the list items created, in order
    inlinksDepth,     \* renderLinkHierarchy: the value the inward walk returned
    queue,            \* outward walk: the queue of { file, depth, element }
    tree,             \* outward walk: the list items created, each under its parent
    expanded,         \* the queue items the running walk has expanded, in order
    failed,           \* the document whose lookup threw, NoKey if none did
    attachments,      \* document -> the attachments of its LinkSet, in order
    processedAttachments, \* the outward walk's map: document -> the attachments reported for it
    attached,         \* the attachments the outward walk has reported, in order
    pops,             \* the queue items the walks of the build have popped, in order
    previous          \* what the previous build of the same hierarchy produced, NoRun if none

walkVars == <<links, boards, maxDepth, pc, file, depthArg, inlinkQueue, inlinkMap, processedLinks,
              maxInlinkDepth, rendered, inlinksDepth, queue, tree, expanded, failed,
              attachments, processedAttachments, attached, pops, previous>>

\* ---- one extraction of the outgoing links of a note (getLinks) ----
VARIABLES
    written,          \* the links written in the note, NoFileCache for a file without file cache
    fileCache,        \* metadataCache.getFileCache(file): the texts of those links
    linkData,         \* what getLinks settled with, NoLinkData before it has
    isCanvasLinksEnabled, \* settings.isCanvasLinksEnabled
    canvasWritten,    \* board -> the bracket-links written in its text nodes
    canvasContent,    \* board -> vault.read(board): the texts of those links
    vaultReads        \* the files getLinks has called vault.read for, in order

extractVars == <<written, fileCache, linkData, isCanvasLinksEnabled, canvasWritten,
                 canvasContent, vaultReads>>

\* ---- the life of the plugin and its cleanup timer ----
VARIABLES
    onloadPc,         \* where onload is: "constructed", "loading" (in loadSettings), "loaded"
    unloaded,         \* onunload has run
    settingPc,        \* the onChange handler of the cleanup interval: "idle" or "saving"
    cacheCleanupInterval, \* the field: the interval set last, NoTimer for null
    timers,           \* the intervals that are set and not cleared
    timersSet         \* the number of setInterval calls so far

lifeVars == <<onloadPc, unloaded, settingPc, cacheCleanupInterval, timers, timersSet>>

vars == <<cacheVars, walkVars, extractVars, lifeVars>>

\* nothing writes these after construction
config == <<files, maxCacheSize>>

Docs == {files[i] : i \in 1..Len(files)}

Idle == [st |-> "idle", ext |-> NoExt, removed |-> NoExt]
NoRet == [kind |-> "none", ext |-> NoExt]
Nothing == [c \in Callers |-> NoRet]

\* ---- Map helpers (a JavaScript Map keeps insertion order) ----
Keys(m) == {m[i].key : i \in 1..Len(m)}

MapHas(m, k) == k \in Keys(m)

MapGet(m, k) == m[CHOOSE i \in 1..Len(m) : m[i].key = k]

\* Map.set: an existing key keeps its position, a new key goes last
MapSet(m, k, x) ==
    IF MapHas(m, k)
    THEN [i \in 1..Len(m) |-> IF m[i].key = k THEN x ELSE m[i]]
    ELSE Append(m, x)

MapDelete(m, k) == SelectSeq(m, LAMBDA x : x.key # k)

\* (C5 checks against this) the first key in insertion order, whatever its timestamp
OldestKey_FirstInserted(m) == m[1].key

\* (C34 checks against this) a sort that is not stable: among the entries of
\* the smallest timestamp, the one inserted last comes first
OldestKey_LastOfTies(m) ==
    LET i == CHOOSE i \in 1..Len(m) :
                 /\ \A j \in 1..Len(m) : m[i].timestamp <= m[j].timestamp
                 /\ \A j \in (i + 1)..Len(m) : m[j].timestamp > m[i].timestamp
    IN m[i].key

\* Array.from(entries).sort by timestamp (stable), first element's key
OldestKey(m) ==
    LET i == CHOOSE i \in 1..Len(m) :
                 /\ \A j \in 1..Len(m) : m[i].timestamp <= m[j].timestamp
                 /\ \A j \in 1..(i - 1) : m[j].timestamp > m[i].timestamp
    IN m[i].key

\* the size check after a store: the key it deletes, and the map it leaves
EvictedKey(m) == IF Len(m) > maxCacheSize THEN OldestKey(m) ELSE NoKey

\* (C33 checks against this) a store that is followed by no eviction
Evict_Never(m) == m

Evict(m) == IF Len(m) > maxCacheSize THEN MapDelete(m, OldestKey(m)) ELSE m

\* (C10 checks against this) the short-circuit test with <= for <
Fresh_AtTimeout(cm, ds, d) ==
    /\ MapHas(cm, d)
    /\ d \notin ds
    /\ now - MapGet(cm, d).timestamp <= cacheTimeout

\* the short-circuit test of cacheLinkData on cache map cm and dirty set ds
Fresh(cm, ds, d) ==
    /\ MapHas(cm, d)
    /\ d \notin ds
    /\ now - MapGet(cm, d).timestamp < cacheTimeout

IsFresh(d) == Fresh(cache, dirtyCache, d)

\* (C25 checks against this) an invalidation that empties the cache
Invalidated_All(c, d) == <<>>

\* invalidateCache
Invalidated(c, d) == MapDelete(c, d)

\* no hierarchy is being built
NoWalk ==
    /\ boards = {}
    /\ attachments = [d \in Docs |-> <<>>]
    /\ processedAttachments = [d \in Docs |-> {}]
    /\ attached = <<>>
    /\ pops = <<>>
    /\ previous = NoRun
    /\ maxDepth = 1
    /\ pc = "idle"
    /\ file = NoKey
    /\ depthArg = 0
    /\ inlinkQueue = <<>>
    /\ inlinkMap = <<>>
    /\ processedLinks = {}
    /\ maxInlinkDepth = 0
    /\ rendered = <<>>
    /\ inlinksDepth = 0
    /\ queue = <<>>
    /\ tree = <<>>
    /\ expanded = <<>>
    /\ failed = NoKey

NoExtract ==
    /\ written = NoFileCache
    /\ fileCache = NoFileCache
    /\ linkData = NoLinkData
    /\ isCanvasLinksEnabled = TRUE
    /\ canvasWritten = [d \in Docs |-> <<>>]
    /\ canvasContent = [d \in Docs |-> <<>>]
    /\ vaultReads = <<>>

\* the plugin is loaded and its cleanup interval is set
Loaded ==
    /\ onloadPc = "loaded"
    /\ unloaded = FALSE
    /\ settingPc = "idle"
    /\ cacheCleanupInterval = 1
    /\ timers = {1}
    /\ timersSet = 1

Init ==
    /\ files = <<"A", "B">>
    /\ maxCacheSize = 1
    /\ evicted = NoKey
    /\ now = 0
    /\ cache = <<>>
    /\ loadingPromises = [d \in Docs |-> NoExt]
    /\ dirtyCache = {}
    /\ lastCleanupNotice = 0
    /\ exts = <<>>
    /\ call = [c \in Callers |-> Idle]
    /\ ret = [c \in Callers |-> NoRet]
    /\ links = [d \in Docs |-> {}]
    /\ NoWalk
    /\ NoExtract
    /\ Loaded

\* a getLinks call just started for d, raced against the timer by its starter
NewExt(d) == [doc |-> d, start |-> now, promise |-> "pending", race |-> "racing", inv |-> FALSE]

\* a getLinks call that has settled: nothing refers to it any more
Settled(d) == [doc |-> d, start |-> 0, promise |-> "settled", race |-> "over", inv |-> FALSE]

\* the entry that the starter of extraction e stores: { ...result, timestamp: Date.now() }
Stored(e) == [key |-> exts[e].doc, ext |-> e, timestamp |-> now, inv |-> exts[e].inv]

\* the value of the entry of d in cache map cm, NoExt if there is none
EntryOf(cm, d) == IF MapHas(cm, d) THEN MapGet(cm, d).ext ELSE NoExt

\* invalidateCache ran for d: note it in the pending extractions of d
MarkInv(xs, d) ==
    [e \in 1..Len(xs) |->
        IF xs[e].doc = d /\ xs[e].promise = "pending" THEN [xs[e] EXCEPT !.inv = TRUE] ELSE xs[e]]

\* the synchronous part of cacheLinkData(d) called by c, on cache map cm, dirty
\* set ds and extractions xs; rm is the value a forced refresh removed
CacheLinkData(c, d, cm, ds, xs, rm) ==
    IF Fresh(cm, ds, d)
    THEN /\ ret' = [Nothing EXCEPT ![c] = [kind |-> "hit", ext |-> MapGet(cm, d).ext]]
         /\ exts' = xs
         /\ UNCHANGED <<loadingPromises, call>>
    ELSE IF loadingPromises[d] # NoExt
    THEN /\ call' = [call EXCEPT ![c] = [st |-> "join", ext |-> loadingPromises[d], removed |-> rm]]
         /\ ret' = Nothing
         /\ exts' = xs
         /\ UNCHANGED loadingPromises
    ELSE /\ Len(xs) < MaxExt
         /\ exts' = Append(xs, NewExt(d))
         /\ loadingPromises' = [loadingPromises EXCEPT ![d] = Len(xs) + 1]
         /\ call' = [call EXCEPT ![c] = [st |-> "own", ext |-> Len(xs) + 1, removed |-> rm]]
         /\ ret' = Nothing

\* (C24 checks against this) a get that stamps the entry it returns with the
\* current time
Get_TouchOnHit(c, d) ==
    /\ call[c].st = "idle"
    /\ CacheLinkData(c, d, cache, dirtyCache, exts, NoExt)
    /\ cache' = IF Fresh(cache, dirtyCache, d)
                THEN MapSet(cache, d, [MapGet(cache, d) EXCEPT !.timestamp = now])
                ELSE cache
    /\ evicted' = NoKey
    /\ UNCHANGED <<config, walkVars, extractVars, lifeVars, now, dirtyCache, lastCleanupNotice>>

\* get(doc): a call of cacheLinkData
Get(c, d) ==
    /\ call[c].st = "idle"
    /\ CacheLinkData(c, d, cache, dirtyCache, exts, NoExt)
    /\ evicted' = NoKey
    /\ UNCHANGED <<config, walkVars, extractVars, lifeVars, now, cache, dirtyCache, lastCleanupNotice>>

\* (C8 checks against this) a forced refresh that skips invalidateCache
ForceRefresh_NoInvalidate(c, d) == Get(c, d)

\* get(doc, forceRefresh = true): updateLinkNavigation(file, true) with an
\* active view, which calls invalidateCache and then looks the file up
ForceRefresh(c, d) ==
    /\ call[c].st = "idle"
    /\ cache' = Invalidated(cache, d)
    /\ dirtyCache' = dirtyCache \cup {d}
    /\ CacheLinkData(c, d, cache', dirtyCache', MarkInv(exts, d), EntryOf(cache, d))
    /\ evicted' = NoKey
    /\ UNCHANGED <<config, walkVars, extractVars, lifeVars, now, lastCleanupNotice>>

\* invalidate(doc): updateLinkNavigation(file, true) without an active view
\* returns right after invalidateCache
Invalidate(d) ==
    /\ cache' = Invalidated(cache, d)
    /\ dirtyCache' = dirtyCache \cup {d}
    /\ exts' = MarkInv(exts, d)
    /\ ret' = Nothing
    /\ evicted' = NoKey
    /\ UNCHANGED <<config, walkVars, extractVars, lifeVars, now, loadingPromises, lastCleanupNotice, call>>

\* the Refresh button of the detailed view: cache.delete, then the lookup
RefreshClick(c, d) ==
    /\ call[c].st = "idle"
    /\ cache' = MapDelete(cache, d)
    /\ CacheLinkData(c, d, cache', dirtyCache, exts, NoExt)
    /\ evicted' = NoKey
    /\ UNCHANGED <<config, walkVars, extractVars, lifeVars, now, dirtyCache, lastCleanupNotice>>

\* every caller suspended on extraction e gets outcome k
Deliver(e, k) ==
    /\ call' = [c \in Callers |-> IF call[c].ext = e THEN Idle ELSE call[c]]
    /\ ret' = [c \in Callers |-> IF call[c].ext = e THEN [kind |-> k, ext |-> e] ELSE NoRet]

\* getLinks of extraction e resolves; if its starter is still in the race, the
\* starter stores the entry, deletes the loading promise and evicts
ExtResolve(e) ==
    /\ exts[e].promise = "pending"
    /\ IF exts[e].race = "racing"
       THEN /\ cache' = Evict(MapSet(cache, exts[e].doc, Stored(e)))
            /\ evicted' = EvictedKey(MapSet(cache, exts[e].doc, Stored(e)))
            /\ loadingPromises' = [loadingPromises EXCEPT ![exts[e].doc] = NoExt]
            /\ exts' = [exts EXCEPT ![e] = Settled(exts[e].doc)]
       ELSE /\ exts' = [exts EXCEPT ![e] = Settled(exts[e].doc)]
            /\ evicted' = NoKey
            /\ UNCHANGED <<cache, loadingPromises>>
    /\ Deliver(e, "value")
    /\ UNCHANGED <<config, walkVars, extractVars, lifeVars, now, dirtyCache, lastCleanupNotice>>

\* getLinks of extraction e rejects (vault.read fails)
ExtReject(e) ==
    /\ exts[e].promise = "pending"
    /\ IF exts[e].race = "racing"
       THEN /\ loadingPromises' = [loadingPromises EXCEPT ![exts[e].doc] = NoExt]
            /\ exts' = [exts EXCEPT ![e] = Settled(exts[e].doc)]
       ELSE /\ exts' = [exts EXCEPT ![e] = Settled(exts[e].doc)]
            /\ UNCHANGED loadingPromises
    /\ Deliver(e, "error")
    /\ evicted' = NoKey
    /\ UNCHANGED <<config, walkVars, extractVars, lifeVars, now, cache, dirtyCache, lastCleanupNotice>>

\* the 10000 ms timer of the race fires first: only the starter's call ends;
\* the callers that joined hold the getLinks promise itself
Timeout(e) ==
    /\ exts[e].race = "racing"
    /\ now - exts[e].start >= LOADING_TIMEOUT
    /\ loadingPromises' = [loadingPromises EXCEPT ![exts[e].doc] = NoExt]
    /\ exts' = [exts EXCEPT ![e].race = "over", ![e].start = 0, ![e].inv = FALSE]
    /\ call' = [c \in Callers |-> IF call[c].st = "own" /\ call[c].ext = e THEN Idle ELSE call[c]]
    /\ ret' = [c \in Callers |-> IF call[c].st = "own" /\ call[c].ext = e
                                 THEN [kind |-> "timeout", ext |-> e] ELSE NoRet]
    /\ evicted' = NoKey
    /\ UNCHANGED <<config, walkVars, extractVars, lifeVars, now, cache, dirtyCache, lastCleanupNotice>>

\* the clock advances; a due timer of a race fires before it advances further
Tick ==
    /\ now < MaxTime
    /\ \A e \in 1..Len(exts) :
           exts[e].race = "racing" => now - exts[e].start < LOADING_TIMEOUT
    /\ now' = now + 1
    /\ ret' = Nothing
    /\ evicted' = NoKey
    /\ UNCHANGED <<config, walkVars, extractVars, lifeVars, cache, loadingPromises, dirtyCache, lastCleanupNotice, exts, call>>

\* (C20 checks against this) the expiry test with >= for >
Expired_AtTimeout(x) == now - x.timestamp >= cacheTimeout

\* cleanupCache: now - entry.timestamp > this.settings.cacheTimeout
Expired(x) == now - x.timestamp > cacheTimeout

\* (C21 checks against this) a cleanup that shows its notice whatever the time
\* of the last one
Cleanup_NoCooldown(show) ==
    LET entriesRemoved == Len(SelectSeq(cache, Expired))
    IN /\ cache' = SelectSeq(cache, LAMBDA x : ~Expired(x))
       /\ lastCleanupNotice' = IF entriesRemoved > 0 /\ show THEN now ELSE lastCleanupNotice
       /\ ret' = Nothing
       /\ evicted' = NoKey
       /\ UNCHANGED <<config, walkVars, extractVars, lifeVars, now, loadingPromises, dirtyCache, exts, call>>

\* cleanupCache, run by the interval timer; show is settings.showCacheCleanupNotice
Cleanup(show) ==
    LET entriesRemoved == Len(SelectSeq(cache, Expired))
    IN /\ cache' = SelectSeq(cache, LAMBDA x : ~Expired(x))
       /\ lastCleanupNotice' =
              IF entriesRemoved > 0 /\ show /\ now - lastCleanupNotice > CLEANUP_NOTICE_COOLDOWN
              THEN now ELSE lastCleanupNotice
       /\ ret' = Nothing
       /\ evicted' = NoKey
       /\ UNCHANGED <<config, walkVars, extractVars, lifeVars, now, loadingPromises, dirtyCache, exts, call>>

\* rebuildCache: clear the three collections, then updateLinkNavigation(file)
\* for every file of the vault. With an active view each of these calls
\* reaches cacheLinkData, which finds neither an entry nor a loading promise
\* and starts getLinks; without one each returns at once.
Rebuild(view) ==
    /\ cache' = <<>>
    /\ dirtyCache' = {}
    /\ IF view
       THEN /\ Len(exts) + Len(files) <= MaxExt
            /\ exts' = exts \o [i \in 1..Len(files) |-> NewExt(files[i])]
            /\ loadingPromises' =
                   [d \in Docs |-> Len(exts) + (CHOOSE i \in 1..Len(files) : files[i] = d)]
       ELSE /\ exts' = exts
            /\ loadingPromises' = [d \in Docs |-> NoExt]
    /\ ret' = Nothing
    /\ evicted' = NoKey
    /\ UNCHANGED <<config, walkVars, extractVars, lifeVars, now, lastCleanupNotice, call>>

Next ==
    \/ \E c \in Callers, d \in Docs : Get(c, d)
    \/ \E c \in Callers, d \in Docs : ForceRefresh(c, d)
    \/ \E d \in Docs : Invalidate(d)
    \/ \E c \in Callers, d \in Docs : RefreshClick(c, d)
    \/ \E e \in 1..Len(exts) : ExtResolve(e)
    \/ \E e \in 1..Len(exts) : ExtReject(e)
    \/ \E e \in 1..Len(exts) : Timeout(e)
    \/ Tick
    \/ \E show \in BOOLEAN : Cleanup(show)
    \/ \E view \in BOOLEAN : Rebuild(view)

Spec == Init /\ [][Next]_vars

\* ---- the size bound on a vault of three files ----
\* A run that starts with a cache some earlier lookups have left: up to two
\* entries under distinct keys, stored at times 0..InitNow in any order (an
\* entry refreshed in place keeps its position but has a newer timestamp).
InitNow == 1

EvictFiles == <<"A", "B", "C">>

InitCaches ==
    {m \in UNION {[1..n -> [key : {"A", "B", "C"}, ext : 1..2, timestamp : 0..InitNow, inv : {FALSE}]]
                     : n \in 0..2} :
        /\ \A i \in 1..Len(m) : m[i].ext = i
        /\ \A i \in 1..Len(m), j \in 1..Len(m) : m[i].key = m[j].key => i = j}

InitEvict ==
    /\ files = EvictFiles
    /\ maxCacheSize = 2
    /\ evicted = NoKey
    /\ now = InitNow
    /\ cache \in InitCaches
    /\ loadingPromises = [d \in Docs |-> NoExt]
    /\ dirtyCache = {}
    /\ lastCleanupNotice = 0
    /\ exts = [i \in 1..Len(cache) |-> Settled(cache[i].key)]
    /\ call = [c \in Callers |-> Idle]
    /\ ret = [c \in Callers |-> NoRet]
    /\ links = [d \in Docs |-> {}]
    /\ NoWalk
    /\ NoExtract
    /\ Loaded

NextEvict ==
    \/ \E c \in Callers, d \in Docs : Get(c, d)
    \/ \E e \in 1..Len(exts) : ExtResolve(e)
    \/ \E e \in 1..Len(exts) : ExtReject(e)
    \/ Tick

SpecEvict == InitEvict /\ [][NextEvict]_vars

\* ---- the hierarchy walks ----
\* Every document of the vault is a file with a basename of its own, a Markdown note,
\* so a name in a LinkSet resolves to the one document of that name; C may be
\* a canvas board instead, which the metadata cache does not index (it has no
\* links of its own) and which notes may link to. The
\* LinkSet of a document is the one getLinks derives from links, which does
\* not change during a build; a lookup (cacheLinkData) returns it or throws.
\* The attachments toggle is on and the tags toggle off, as the fields are
\* initialised, so the lookups made for attachments are part of the walks.
MaxDepthSetting == 3
OneAttachment == <<"a.png">>

WalkFiles == <<"A", "B", "C">>

Max(a, b) == IF a >= b THEN a ELSE b

\* the outlinks of d, in the order of the vault: the targets that are not
\* canvas boards (addLinkToAppropriateSet)
Outlinks(d) == SelectSeq(files, LAMBDA x : x \in links[d] /\ x \notin boards)

\* (C14 checks against this) the walk follows the links of d forward
Inlinks_Forward(d) == SelectSeq(files, LAMBDA x : x \in links[d])

\* the inlinks of d: every source whose resolved links contain d
Inlinks(d) == SelectSeq(files, LAMBDA s : d \in links[s])

\* (C18 checks against this) the skip test without the processedLinks test
Skip_DepthOnly(depth, f, maxD, processed) == depth >= maxD

\* (C12 checks against this) the skip test with > for >=
Skip_Late(depth, f, maxD, processed) == depth > maxD \/ f \in processed

\* the skip test of both walks: depth >= maxDepth || processedLinks.has(path)
Skip(depth, f, maxD, processed) == depth >= maxD \/ f \in processed

\* (C26 checks against this) the skip test of the outward walk without the
\* canvas test
OutSkip_NoCanvas(depth, f, maxD, processed) == Skip(depth, f, maxD, processed)

\* the skip test of the outward walk:
\* depth >= maxDepth || extension === 'canvas' || processedLinks.has(path)
OutSkip(depth, f, maxD, processed) == Skip(depth, f, maxD, processed) \/ f \in boards

\* (C38 checks against this) a walk that does not mark what it pops
Marked_Not(processed, f) == processed

\* processedLinks.add(path)
Marked(processed, f) == processed \cup {f}

\* inlinkMap.set(path, { depth }) for each of the sources, in order
RECURSIVE SetAll(_, _, _)
SetAll(m, sources, depth) ==
    IF sources = <<>>
    THEN m
    ELSE SetAll(MapSet(m, Head(sources), [key |-> Head(sources), depth |-> depth]),
                Tail(sources), depth)

\* (C15 checks against this) the maximum moves even when no source is recorded
Deepest_Unguarded(old, depth, sources) == Max(old, depth + 1)

\* maxInlinkDepth after the sources found at depth were recorded at depth + 1
Deepest(old, depth, sources) == IF sources = <<>> THEN old ELSE Max(old, depth + 1)

\* the largest depth in a list of { depth } records, 0 for the empty list
RECURSIVE DeepestOf(_)
DeepestOf(m) == IF m = <<>> THEN 0 ELSE Max(Head(m).depth, DeepestOf(Tail(m)))

\* the entries of m of depth d, then those of depth d - 1, ... down to depth 1
RECURSIVE ByDepth(_, _)
ByDepth(m, d) ==
    IF d <= 0 THEN <<>> ELSE SelectSeq(m, LAMBDA x : x.depth = d) \o ByDepth(m, d - 1)

\* (C13 checks against this) the list in ascending order of depth
RECURSIVE Ascending(_, _)
Ascending(m, d) ==
    IF d <= 0 THEN <<>> ELSE Ascending(m, d - 1) \o SelectSeq(m, LAMBDA x : x.depth = d)

SortedInlinks_Ascending(m) == Ascending(m, DeepestOf(m))

\* Array.from(inlinkMap.entries()).sort((a, b) => b.depth - a.depth): a stable sort
SortedInlinks(m) == ByDepth(m, DeepestOf(m))

\* (C17 checks against this) the outward depth without the floor of 1
OutlinksDepth_NoFloor(maxD, inD) == maxD - inD

\* Math.max(1, this.maxDepth - inlinksDepth)
OutlinksDepth(maxD, inD) == Max(1, maxD - inD)

\* the first n elements of s
Take(s, n) == IF n <= 0 THEN <<>> ELSE SubSeq(s, 1, n)

\* (C27 checks against this) getNewAttachments returning every attachment
GetNewAttachments_All(filePath, atts, processed) == atts

\* getNewAttachments: the attachments not yet reported for filePath
GetNewAttachments(filePath, atts, processed) ==
    SelectSeq(atts, LAMBDA a : a \notin processed[filePath])

\* the outward walk reports the attachments of f under element el:
\* getNewAttachments adds what it returns to the set of f, renderAttachments
\* shows it. st is [attached, processed].
Report(st, f, el) ==
    LET new == GetNewAttachments(f, attachments[f], st.processed)
    IN [attached |-> st.attached \o
                        [k \in 1..Len(new) |-> [file |-> f, name |-> new[k], element |-> el]],
        processed |-> [st.processed EXCEPT ![f] = @ \cup {new[k] : k \in 1..Len(new)}]]

\* the attachments of the items ts[i..], in order; the item of ts[k] is the
\* element base + k
RECURSIVE ReportChildren(_, _, _, _)
ReportChildren(st, ts, i, base) ==
    IF i > Len(ts) THEN st
    ELSE ReportChildren(Report(st, ts[i], base + i), ts, i + 1, base)

\* renderLinkHierarchy(f): the lookup of the start document, then the inward
\* walk is seeded
RenderLinkHierarchy(f, throws) ==
    /\ pc = "idle"
    /\ file' = f
    /\ IF throws
       THEN /\ pc' = "failed"
            /\ failed' = f
            /\ UNCHANGED <<depthArg, inlinkQueue>>
       ELSE /\ pc' = "inlinks"
            /\ failed' = NoKey
            /\ depthArg' = maxDepth
            /\ inlinkQueue' = <<[file |-> f, depth |-> 0]>>
    /\ inlinkMap' = <<>>
    /\ processedLinks' = {}
    /\ maxInlinkDepth' = 0
    /\ expanded' = <<>>
    /\ pops' = <<>>
    /\ UNCHANGED <<cacheVars, extractVars, lifeVars, links, boards, attachments, previous, maxDepth, rendered, inlinksDepth,
                   queue, tree, processedAttachments, attached>>

\* one iteration of the while loop of renderInlinksIterativelyWithOutlinks.
\* failAt = 0: no lookup throws; 1: the lookup of the current file throws;
\* j + 1: the lookup of the j-th unprocessed source throws. Nothing catches.
InwardStep(failAt) ==
    /\ pc = "inlinks"
    /\ inlinkQueue # <<>>
    /\ LET current == Head(inlinkQueue)
           sources == SelectSeq(Inlinks(current.file),
                                LAMBDA s : s \notin Marked(processedLinks, current.file))
           recorded == IF failAt = 0 THEN sources ELSE Take(sources, failAt - 2)
       IN IF Skip(current.depth, current.file, depthArg, processedLinks)
          THEN /\ failAt = 0
               /\ inlinkQueue' = Tail(inlinkQueue)
               /\ UNCHANGED <<pc, inlinkMap, processedLinks, maxInlinkDepth, expanded, failed>>
          ELSE /\ failAt \in 0..(1 + Len(sources))
               /\ processedLinks' = Marked(processedLinks, current.file)
               /\ expanded' = IF failAt = 1 THEN expanded ELSE Append(expanded, current)
               /\ inlinkMap' = SetAll(inlinkMap, recorded, current.depth + 1)
               /\ inlinkQueue' = Tail(inlinkQueue) \o
                      [i \in 1..Len(recorded) |-> [file |-> recorded[i], depth |-> current.depth + 1]]
               /\ maxInlinkDepth' = Deepest(maxInlinkDepth, current.depth, recorded)
               /\ pc' = IF failAt = 0 THEN pc ELSE "failed"
               /\ failed' = IF failAt = 0 THEN failed
                            ELSE IF failAt = 1 THEN current.file ELSE sources[failAt - 1]
    /\ pops' = Append(pops, [walk |-> "in", file |-> Head(inlinkQueue).file,
                                depth |-> Head(inlinkQueue).depth])
    /\ UNCHANGED <<cacheVars, extractVars, lifeVars, links, boards, attachments, previous, maxDepth, file, depthArg,
                   rendered, inlinksDepth, queue, tree, processedAttachments, attached>>

\* the inward queue is empty: the list is sorted and rendered (with the
\* attachments toggle on, one lookup per item, which may throw: failAt is the
\* item), the walk returns maxInlinkDepth, and renderLinkHierarchy seeds the
\* outward walk with depth max(1, maxDepth - inlinksDepth)
InwardFinish(failAt) ==
    /\ pc = "inlinks"
    /\ inlinkQueue = <<>>
    /\ LET sortedInlinks == SortedInlinks(inlinkMap)
       IN /\ failAt \in 0..Len(sortedInlinks)
          /\ IF failAt = 0
             THEN /\ rendered' = sortedInlinks
                  /\ inlinksDepth' = maxInlinkDepth
                  /\ depthArg' = OutlinksDepth(maxDepth, maxInlinkDepth)
                  /\ queue' = <<[file |-> file, depth |-> 0, element |-> 0]>>
                  /\ processedLinks' = {}
                  /\ expanded' = <<>>
                  /\ pc' = "outlinks"
                  /\ UNCHANGED failed
             ELSE /\ rendered' = Take(sortedInlinks, failAt)
                  /\ pc' = "failed"
                  /\ failed' = sortedInlinks[failAt].key
                  /\ UNCHANGED <<inlinksDepth, depthArg, queue, processedLinks, expanded>>
    /\ tree' = <<>>
    /\ processedAttachments' = [d \in Docs |-> {}]
    /\ attached' = <<>>
    /\ UNCHANGED <<cacheVars, extractVars, lifeVars, links, boards, attachments, previous, maxDepth, file, inlinkQueue,
                   inlinkMap, maxInlinkDepth, pops>>

\* one iteration of the while loop of renderOutlinksIteratively. An item is
\* created for every unprocessed target before the lookup made for its
\* attachments. failAt as in InwardStep.
OutwardStep(failAt) ==
    /\ pc = "outlinks"
    /\ queue # <<>>
    /\ LET current == Head(queue)
           targets == SelectSeq(Outlinks(current.file),
                                LAMBDA s : s \notin Marked(processedLinks, current.file))
           shown == IF failAt = 0 THEN targets ELSE Take(targets, failAt - 1)
           pushed == IF failAt = 0 THEN targets ELSE Take(targets, failAt - 2)
       IN IF OutSkip(current.depth, current.file, depthArg, processedLinks)
          THEN /\ failAt = 0
               /\ queue' = Tail(queue)
               /\ UNCHANGED <<pc, tree, processedLinks, expanded, failed,
                              processedAttachments, attached>>
          ELSE /\ failAt \in 0..(1 + Len(targets))
               /\ processedLinks' = Marked(processedLinks, current.file)
               /\ LET st0 == [attached |-> attached, processed |-> processedAttachments]
                      st1 == IF failAt = 1 THEN st0
                             ELSE Report(st0, current.file, current.element)
                      st2 == ReportChildren(st1, pushed, 1, Len(tree))
                  IN /\ attached' = st2.attached
                     /\ processedAttachments' = st2.processed
               /\ expanded' = IF failAt = 1 THEN expanded
                              ELSE Append(expanded, [file |-> current.file, depth |-> current.depth])
               /\ tree' = tree \o
                      [i \in 1..Len(shown) |->
                          [file |-> shown[i], parent |-> current.element, depth |-> current.depth + 1]]
               /\ queue' = Tail(queue) \o
                      [i \in 1..Len(pushed) |->
                          [file |-> pushed[i], depth |-> current.depth + 1, element |-> Len(tree) + i]]
               /\ pc' = IF failAt = 0 THEN pc ELSE "failed"
               /\ failed' = IF failAt = 0 THEN failed
                            ELSE IF failAt = 1 THEN current.file ELSE targets[failAt - 1]
    /\ pops' = Append(pops, [walk |-> "out", file |-> Head(queue).file, depth |-> Head(queue).depth])
    /\ UNCHANGED <<cacheVars, extractVars, lifeVars, links, boards, attachments, previous, maxDepth, file, depthArg,
                   inlinkQueue, inlinkMap, maxInlinkDepth, rendered, inlinksDepth>>

\* the outward queue is empty: renderOutlinksIteratively returns
OutwardFinish ==
    /\ pc = "outlinks"
    /\ queue = <<>>
    /\ pc' = "done"
    /\ UNCHANGED <<cacheVars, extractVars, lifeVars, links, boards, attachments, previous, maxDepth, file, depthArg,
                   inlinkQueue, inlinkMap, processedLinks, maxInlinkDepth, rendered,
                   inlinksDepth, queue, tree, expanded, failed, processedAttachments,
                   attached, pops>>

\* the depth input changes while a build is under way: a positive number is
\* stored in the field maxDepth (the build that the handler starts next is
\* another build; the one followed here only sees the field change)
SetDepth(newDepth) ==
    /\ pc \in {"inlinks", "outlinks"}
    /\ newDepth > 0
    /\ newDepth # maxDepth
    /\ maxDepth' = newDepth
    /\ UNCHANGED <<cacheVars, extractVars, lifeVars, links, boards, attachments, previous, pc, file, depthArg,
                   inlinkQueue, inlinkMap, processedLinks, maxInlinkDepth, rendered,
                   inlinksDepth, queue, tree, expanded, failed, processedAttachments,
                   attached, pops>>

InitWalk ==
    /\ files = WalkFiles
    /\ maxCacheSize = 1
    /\ evicted = NoKey
    /\ now = 0
    /\ cache = <<>>
    /\ loadingPromises = [d \in Docs |-> NoExt]
    /\ dirtyCache = {}
    /\ lastCleanupNotice = 0
    /\ exts = <<>>
    /\ call = [c \in Callers |-> Idle]
    /\ ret = [c \in Callers |-> NoRet]
    /\ links \in [Docs -> SUBSET Docs]
    /\ boards \in {{}, {"C"}}
    /\ \A b \in boards : links[b] = {}
    /\ attachments = [d \in Docs |-> IF d \in boards THEN <<>> ELSE OneAttachment]
    /\ processedAttachments = [d \in Docs |-> {}]
    /\ attached = <<>>
    /\ pops = <<>>
    /\ previous = NoRun
    /\ maxDepth \in 1..MaxDepthSetting
    /\ pc = "idle"
    /\ file = NoKey
    /\ depthArg = 0
    /\ inlinkQueue = <<>>
    /\ inlinkMap = <<>>
    /\ processedLinks = {}
    /\ maxInlinkDepth = 0
    /\ rendered = <<>>
    /\ inlinksDepth = 0
    /\ queue = <<>>
    /\ tree = <<>>
    /\ expanded = <<>>
    /\ failed = NoKey
    /\ NoExtract
    /\ Loaded

WalkStep ==
    \/ \E failAt \in 0..(1 + Len(files)) : InwardStep(failAt)
    \/ \E failAt \in 0..Len(files) : InwardFinish(failAt)
    \/ \E failAt \in 0..(1 + Len(files)) : OutwardStep(failAt)
    \/ OutwardFinish

NextWalk ==
    \/ \E f \in Docs, throws \in BOOLEAN : RenderLinkHierarchy(f, throws)
    \/ \E failAt \in 0..(1 + Len(files)) : InwardStep(failAt)
    \/ \E failAt \in 0..Len(files) : InwardFinish(failAt)
    \/ \E failAt \in 0..(1 + Len(files)) : OutwardStep(failAt)
    \/ OutwardFinish
    \/ \E newDepth \in 1..MaxDepthSetting : SetDepth(newDepth)

SpecWalk == InitWalk /\ [][NextWalk]_vars

\* a lookup settles, so a walk that can take a step takes one
SpecWalkFair == SpecWalk /\ WF_vars(WalkStep)

\* ---- the sort of the inward list, on any inlink map ----
\* Besides the builds of SpecWalk, builds whose inward loop has just ended
\* with an arbitrary inlinkMap: up to MaxInlinks entries under distinct keys,
\* at depths 1..MaxDepthSetting in any order of insertion.
MaxInlinks == 4

SortFiles == <<"A", "B", "C", "D", "E">>

SortInputs ==
    {m \in UNION {[1..n -> [key : {"B", "C", "D", "E"}, depth : 1..MaxDepthSetting]]
                     : n \in 0..MaxInlinks} :
        \A i \in 1..Len(m), j \in 1..Len(m) : m[i].key = m[j].key => i = j}

InitSort ==
    /\ files = SortFiles
    /\ maxCacheSize = 1
    /\ evicted = NoKey
    /\ now = 0
    /\ cache = <<>>
    /\ loadingPromises = [d \in Docs |-> NoExt]
    /\ dirtyCache = {}
    /\ lastCleanupNotice = 0
    /\ exts = <<>>
    /\ call = [c \in Callers |-> Idle]
    /\ ret = [c \in Callers |-> NoRet]
    /\ links = [d \in Docs |-> {}]
    /\ boards = {}
    /\ attachments = [d \in Docs |-> <<>>]
    /\ processedAttachments = [d \in Docs |-> {}]
    /\ attached = <<>>
    /\ pops = <<>>
    /\ previous = NoRun
    /\ maxDepth = MaxDepthSetting
    /\ pc = "inlinks"
    /\ file = "A"
    /\ depthArg = MaxDepthSetting
    /\ inlinkQueue = <<>>
    /\ inlinkMap \in SortInputs
    /\ processedLinks = {"A"} \cup {inlinkMap[i].key : i \in 1..Len(inlinkMap)}
    /\ maxInlinkDepth = DeepestOf(inlinkMap)
    /\ rendered = <<>>
    /\ inlinksDepth = 0
    /\ queue = <<>>
    /\ tree = <<>>
    /\ expanded = <<>>
    /\ failed = NoKey
    /\ NoExtract
    /\ Loaded

SpecSort == (InitWalk \/ InitSort) /\ [][NextWalk]_vars

\* ---- the background cleanup on a cache of two entries ----
NextCleanup ==
    \/ \E c \in Callers, d \in Docs : Get(c, d)
    \/ \E d \in Docs : Invalidate(d)
    \/ \E e \in 1..Len(exts) : ExtResolve(e)
    \/ \E e \in 1..Len(exts) : ExtReject(e)
    \/ Tick
    \/ \E show \in BOOLEAN : Cleanup(show)

SpecCleanup == InitEvict /\ [][NextCleanup]_vars

\* ---- the cleanup notice, with an earlier notice in the past ----
\* A run that starts at time NoticeNow with a cache of up to two entries
\* stored at times 0..NoticeNow and the last cleanup notice shown at any time
\* up to then.
NoticeNow == 2

NoticeCaches ==
    {m \in UNION {[1..n -> [key : {"A", "B", "C"}, ext : 1..2, timestamp : 0..NoticeNow, inv : {FALSE}]]
                     : n \in 0..2} :
        /\ \A i \in 1..Len(m) : m[i].ext = i
        /\ \A i \in 1..Len(m), j \in 1..Len(m) : m[i].key = m[j].key => i = j}

InitNotice ==
    /\ files = EvictFiles
    /\ maxCacheSize = 2
    /\ evicted = NoKey
    /\ now = NoticeNow
    /\ cache \in NoticeCaches
    /\ loadingPromises = [d \in Docs |-> NoExt]
    /\ dirtyCache = {}
    /\ lastCleanupNotice \in 0..NoticeNow
    /\ exts = [i \in 1..Len(cache) |-> Settled(cache[i].key)]
    /\ call = [c \in Callers |-> Idle]
    /\ ret = [c \in Callers |-> NoRet]
    /\ links = [d \in Docs |-> {}]
    /\ NoWalk
    /\ NoExtract
    /\ Loaded

NextNotice ==
    \/ \E c \in Callers, d \in Docs : Get(c, d)
    \/ \E e \in 1..Len(exts) : ExtResolve(e)
    \/ Tick
    \/ \E show \in BOOLEAN : Cleanup(show)

SpecNotice == InitNotice /\ [][NextNotice]_vars

\* ---- the outward walk over documents with attachments ----
\* The builds of SpecWalk at the largest depth setting, over notes whose
\* LinkSets hold no attachment or two.
AttachmentLists == {<<>>, <<"a.png", "b.pdf">>}

InitAttach ==
    /\ files = WalkFiles
    /\ maxCacheSize = 1
    /\ evicted = NoKey
    /\ now = 0
    /\ cache = <<>>
    /\ loadingPromises = [d \in Docs |-> NoExt]
    /\ dirtyCache = {}
    /\ lastCleanupNotice = 0
    /\ exts = <<>>
    /\ call = [c \in Callers |-> Idle]
    /\ ret = [c \in Callers |-> NoRet]
    /\ links \in [Docs -> SUBSET Docs]
    /\ boards = {}
    /\ attachments \in [Docs -> AttachmentLists]
    /\ processedAttachments = [d \in Docs |-> {}]
    /\ attached = <<>>
    /\ pops = <<>>
    /\ previous = NoRun
    /\ maxDepth = MaxDepthSetting
    /\ pc = "idle"
    /\ file = NoKey
    /\ depthArg = 0
    /\ inlinkQueue = <<>>
    /\ inlinkMap = <<>>
    /\ processedLinks = {}
    /\ maxInlinkDepth = 0
    /\ rendered = <<>>
    /\ inlinksDepth = 0
    /\ queue = <<>>
    /\ tree = <<>>
    /\ expanded = <<>>
    /\ failed = NoKey
    /\ NoExtract
    /\ Loaded

SpecAttach == InitAttach /\ [][NextWalk]_vars

\* ---- the same hierarchy built twice ----
\* (C28 checks against this) a second build that keeps the visited set of the
\* build before it
Rerun_SharedVisited ==
    /\ pc = "done"
    /\ previous = NoRun
    /\ previous' = <<[pops |-> pops, rendered |-> rendered, tree |-> tree,
                     attached |-> attached]>>
    /\ pc' = "inlinks"
    /\ failed' = NoKey
    /\ depthArg' = maxDepth
    /\ inlinkQueue' = <<[file |-> file, depth |-> 0]>>
    /\ inlinkMap' = <<>>
    /\ maxInlinkDepth' = 0
    /\ expanded' = <<>>
    /\ pops' = <<>>
    /\ UNCHANGED <<cacheVars, extractVars, lifeVars, links, boards, attachments, maxDepth, file, rendered,
                   inlinksDepth, queue, tree, processedAttachments, attached,
                   processedLinks>>

\* updateDetailedViewContent builds the hierarchy of the same document again
\* once a build has ended: the container is emptied, what the build before
\* produced is kept here for comparison, and renderLinkHierarchy starts anew
\* on locals of its own
Rerun ==
    /\ pc = "done"
    /\ previous = NoRun
    /\ previous' = <<[pops |-> pops, rendered |-> rendered, tree |-> tree,
                     attached |-> attached]>>
    /\ pc' = "inlinks"
    /\ failed' = NoKey
    /\ depthArg' = maxDepth
    /\ inlinkQueue' = <<[file |-> file, depth |-> 0]>>
    /\ inlinkMap' = <<>>
    /\ processedLinks' = {}
    /\ maxInlinkDepth' = 0
    /\ expanded' = <<>>
    /\ pops' = <<>>
    /\ UNCHANGED <<cacheVars, extractVars, lifeVars, links, boards, attachments, maxDepth, file, rendered,
                   inlinksDepth, queue, tree, processedAttachments, attached>>

\* two builds of a hierarchy, one after the other, in which every lookup
\* succeeds and the depth setting stays as it is
NextRerun ==
    \/ \E f \in Docs : RenderLinkHierarchy(f, FALSE)
    \/ InwardStep(0)
    \/ InwardFinish(0)
    \/ OutwardStep(0)
    \/ OutwardFinish
    \/ Rerun

SpecRerun == InitWalk /\ [][NextRerun]_vars

\* ---- the classification of links in getLinks ----
\* A link is written in a note with a path, possibly a heading, and in the
\* frontmatter possibly an alias and an embed mark. The text of a link is a
\* sequence of tokens; the metadata cache hands getLinks the text of the links
\* and embeds of the body (path and heading), and JSON.stringify the
\* frontmatter in which the regular expression finds the bracketed links.
\* "X" is a path no file has. A note has up to MaxBodyLinks links in its
\* body, at most one embed and at most one link in its frontmatter.
MaxBodyLinks == 2

LinkPaths == {"A", "B", "C", "X"}

BodyLinks == [path : LinkPaths, header : {"", "h"}]

FrontmatterLinks == [path : LinkPaths, header : {"", "h"}, alias : {"", "a"}, embed : BOOLEAN]

UpTo(S, n) == UNION {[1..k -> S] : k \in 0..n}

\* link.link of a LinkCache or EmbedCache
LinkText(l) == <<l.path>> \o (IF l.header = "" THEN <<>> ELSE <<"#", l.header>>)

\* a match of the regular expression of line 495 in the frontmatter
FrontmatterText(l) ==
    (IF l.embed THEN <<"!">> ELSE <<>>) \o <<"[[">> \o LinkText(l)
        \o (IF l.alias = "" THEN <<>> ELSE <<"|", l.alias>>) \o <<"]]">>

\* metadataCache.getFileCache(file) for a note in which w is written
FileCacheOf(w) ==
    [links |-> [i \in 1..Len(w.links) |-> LinkText(w.links[i])],
     embeds |-> [i \in 1..Len(w.embeds) |-> LinkText(w.embeds[i])],
     frontmatter |-> [i \in 1..Len(w.frontmatter) |-> FrontmatterText(w.frontmatter[i])]]

\* s.split(sep)[0]
SplitFirst(s, sep) ==
    IF \E i \in 1..Len(s) : s[i] = sep
    THEN Take(s, (CHOOSE i \in 1..Len(s) : s[i] = sep /\ \A j \in 1..(i - 1) : s[j] # sep) - 1)
    ELSE s

\* link.replace(/^!?\[\[|\]\]$/g, '')
StripBrackets(s) ==
    LET a == IF Len(s) >= 2 /\ s[1] = "!" /\ s[2] = "[["
             THEN SubSeq(s, 3, Len(s))
             ELSE IF Len(s) >= 1 /\ s[1] = "[[" THEN SubSeq(s, 2, Len(s)) ELSE s
    IN IF Len(a) >= 1 /\ a[Len(a)] = "]]" THEN SubSeq(a, 1, Len(a) - 1) ELSE a

\* cleanLink of line 497
CleanLink(s) == SplitFirst(StripBrackets(s), "|")

\* (C30 checks against this) the link handed on with its heading
LinkWithoutHeader_Whole(link) == link

\* link.split('#')[0]
LinkWithoutHeader(link) == SplitFirst(link, "#")

\* getFirstLinkpathDest(linkpath, ''): the file of that name, NoKey for null
GetFirstLinkpathDest(linkpath) ==
    IF Len(linkpath) = 1 /\ linkpath[1] \in Docs THEN linkpath[1] ELSE NoKey

\* Set.add on a Set kept in insertion order
SetAdd(s, x) == IF \E i \in 1..Len(s) : s[i] = x THEN s ELSE Append(s, x)

\* addLinkToAppropriateSet(link, outlinks, canvasLinks); sets is the pair
AddLinkToAppropriateSet(link, sets) ==
    LET linkedFile == GetFirstLinkpathDest(LinkWithoutHeader(link))
    IN IF linkedFile = NoKey THEN sets
       ELSE IF linkedFile \in boards
            THEN [sets EXCEPT !.canvasLinks = SetAdd(@, linkedFile)]
            ELSE [sets EXCEPT !.outlinks = SetAdd(@, linkedFile)]

\* the loops of lines 481-500 over ls[i..]
RECURSIVE AddLinks(_, _, _)
AddLinks(ls, i, sets) ==
    IF i > Len(ls) THEN sets
    ELSE AddLinks(ls, i + 1, AddLinkToAppropriateSet(ls[i], sets))

\* the bracket-links a board may hold: to a name, to a longer name that
\* starts with it, or to a name with its folder
CanvasPaths == {<<"A">>, <<"B">>, <<"A", "x">>, <<"d", "/", "A">>}

CanvasLinks == [path : CanvasPaths, header : {"", "h"}, alias : {"", "a"}, embed : BOOLEAN]

\* the text of a bracket-link in the content of a board
CanvasLinkText(l) ==
    (IF l.embed THEN <<"!">> ELSE <<>>) \o <<"[[">> \o l.path
        \o (IF l.header = "" THEN <<>> ELSE <<"#", l.header>>)
        \o (IF l.alias = "" THEN <<>> ELSE <<"|", l.alias>>) \o <<"]]">>

\* vault.read(board) for a board in which ls is written
CanvasContentOf(ls) == [i \in 1..Len(ls) |-> CanvasLinkText(ls[i])]

\* the regular expression of line 509 on one bracket-link: [[ or ![[, the
\* basename, then possibly # and a heading, then possibly | and anything, ]]
LinkRegexMatches(text, basename) ==
    LET t == IF Len(text) >= 1 /\ text[1] = "!" THEN Tail(text) ELSE text
        middle == SubSeq(t, 3, Len(t) - 1)
        heading == SplitFirst(Tail(middle), "|")
    IN /\ Len(t) >= 3
       /\ t[1] = "[["
       /\ t[2] = basename
       /\ t[Len(t)] = "]]"
       /\ \/ middle = <<>>
          \/ middle[1] = "|"
          \/ /\ middle[1] = "#"
             /\ heading # <<>>
             /\ \A i \in 1..Len(heading) : heading[i] # "]]"

\* (C31 checks against this) the test of a board that looks for the basename
\* anywhere in a bracket-link
LinkRegexTest_Anywhere(content, basename) ==
    \E i \in 1..Len(content) : \E k \in 1..Len(content[i]) : content[i][k] = basename

\* linkRegex.test(content)
LinkRegexTest(content, basename) ==
    \E i \in 1..Len(content) : LinkRegexMatches(content[i], basename)

\* the canvas files of the vault, in the order of the vault
CanvasFiles == SelectSeq(files, LAMBDA f : f \in boards)

\* the loop of lines 507-514 over cf[i..]: the boards read so far whose
\* content holds a link to the basename are added
RECURSIVE ScanCanvasFiles(_, _, _, _)
ScanCanvasFiles(cf, i, basename, canvasLinks) ==
    IF i > Len(cf) THEN canvasLinks
    ELSE ScanCanvasFiles(cf, i + 1, basename,
             IF LinkRegexTest(canvasContent[cf[i]], basename)
             THEN SetAdd(canvasLinks, cf[i]) ELSE canvasLinks)

\* getLinks(f): the links of the body, its embeds, the links of the
\* frontmatter (lines 477-502); with the canvas search enabled every board of
\* the vault is read and tested (504-515); then the content of f is read (line
\* 555) and the sets are returned as arrays. failAt = 0: no read throws; k: the
\* k-th read throws and getLinks rejects. Without a file cache (f is a board)
\* the links of f are empty. The inlinks, the attachments and the tags are
\* computed from other inputs and are not represented in linkData.
GetLinks(f, failAt) ==
    /\ linkData = NoLinkData
    /\ f \in boards => fileCache = NoFileCache
    /\ LET s0 == [outlinks |-> <<>>, canvasLinks |-> <<>>]
           s1 == IF fileCache = NoFileCache THEN s0
                 ELSE AddLinks(fileCache.links, 1, s0)
           s2 == IF fileCache = NoFileCache THEN s0
                 ELSE AddLinks(fileCache.embeds, 1, s1)
           s3 == IF fileCache = NoFileCache THEN s0
                 ELSE AddLinks([i \in 1..Len(fileCache.frontmatter) |->
                                   CleanLink(fileCache.frontmatter[i])], 1, s2)
           scanned == IF isCanvasLinksEnabled THEN CanvasFiles ELSE <<>>
           reads == Append(scanned, f)
           canvasLinks == ScanCanvasFiles(scanned, 1, f, s3.canvasLinks)
       IN /\ failAt \in 0..Len(reads)
          /\ vaultReads' = IF failAt = 0 THEN reads ELSE Take(reads, failAt)
          /\ linkData' = IF failAt # 0 THEN <<[status |-> "rejected", file |-> f]>>
                         ELSE <<[status |-> "resolved", file |-> f,
                                 outlinks |-> s3.outlinks, canvasLinks |-> canvasLinks]>>
    /\ UNCHANGED <<cacheVars, walkVars, lifeVars, written, fileCache, isCanvasLinksEnabled,
                   canvasWritten, canvasContent>>

Written ==
    [links : UpTo(BodyLinks, MaxBodyLinks), embeds : UpTo(BodyLinks, 1),
     frontmatter : UpTo(FrontmatterLinks, 1)]

InitExtract ==
    /\ files = WalkFiles
    /\ maxCacheSize = 1
    /\ evicted = NoKey
    /\ now = 0
    /\ cache = <<>>
    /\ loadingPromises = [d \in Docs |-> NoExt]
    /\ dirtyCache = {}
    /\ lastCleanupNotice = 0
    /\ exts = <<>>
    /\ call = [c \in Callers |-> Idle]
    /\ ret = [c \in Callers |-> NoRet]
    /\ links = [d \in Docs |-> {}]
    /\ boards \in {{}, {"C"}}
    /\ attachments = [d \in Docs |-> <<>>]
    /\ processedAttachments = [d \in Docs |-> {}]
    /\ attached = <<>>
    /\ pops = <<>>
    /\ previous = NoRun
    /\ maxDepth = 1
    /\ pc = "idle"
    /\ file = NoKey
    /\ depthArg = 0
    /\ inlinkQueue = <<>>
    /\ inlinkMap = <<>>
    /\ processedLinks = {}
    /\ maxInlinkDepth = 0
    /\ rendered = <<>>
    /\ inlinksDepth = 0
    /\ queue = <<>>
    /\ tree = <<>>
    /\ expanded = <<>>
    /\ failed = NoKey
    /\ \/ /\ written \in Written
          /\ fileCache = FileCacheOf(written)
       \/ /\ written = NoFileCache
          /\ fileCache = NoFileCache
    /\ linkData = NoLinkData
    /\ isCanvasLinksEnabled = TRUE
    /\ canvasWritten = [d \in Docs |-> <<>>]
    /\ canvasContent = [d \in Docs |-> <<>>]
    /\ vaultReads = <<>>
    /\ Loaded

NextExtract == \E f \in Docs, failAt \in 0..(1 + Len(files)) : GetLinks(f, failAt)

SpecExtract == InitExtract /\ [][NextExtract]_vars

\* ---- the search of the boards for links to a note ----
\* A vault of one note and two boards, or two notes and a board; the note
\* under extraction links to the last board or to none; each board holds at
\* most one bracket-link; the canvas search is enabled or not.
InitScan ==
    /\ files = WalkFiles
    /\ maxCacheSize = 1
    /\ evicted = NoKey
    /\ now = 0
    /\ cache = <<>>
    /\ loadingPromises = [d \in Docs |-> NoExt]
    /\ dirtyCache = {}
    /\ lastCleanupNotice = 0
    /\ exts = <<>>
    /\ call = [c \in Callers |-> Idle]
    /\ ret = [c \in Callers |-> NoRet]
    /\ links = [d \in Docs |-> {}]
    /\ boards \in {{"C"}, {"B", "C"}}
    /\ attachments = [d \in Docs |-> <<>>]
    /\ processedAttachments = [d \in Docs |-> {}]
    /\ attached = <<>>
    /\ pops = <<>>
    /\ previous = NoRun
    /\ maxDepth = 1
    /\ pc = "idle"
    /\ file = NoKey
    /\ depthArg = 0
    /\ inlinkQueue = <<>>
    /\ inlinkMap = <<>>
    /\ processedLinks = {}
    /\ maxInlinkDepth = 0
    /\ rendered = <<>>
    /\ inlinksDepth = 0
    /\ queue = <<>>
    /\ tree = <<>>
    /\ expanded = <<>>
    /\ failed = NoKey
    /\ written \in [links : UpTo([path : {"C"}, header : {""}], 1), embeds : {<<>>},
                    frontmatter : {<<>>}]
    /\ fileCache = FileCacheOf(written)
    /\ linkData = NoLinkData
    /\ isCanvasLinksEnabled \in BOOLEAN
    /\ canvasWritten \in [Docs -> UpTo(CanvasLinks, 1)]
    /\ \A d \in Docs \ boards : canvasWritten[d] = <<>>
    /\ canvasContent = [d \in Docs |-> CanvasContentOf(canvasWritten[d])]
    /\ vaultReads = <<>>
    /\ Loaded

\* the extraction of a note
NextScan == \E f \in Docs \ boards, failAt \in 0..(1 + Len(files)) : GetLinks(f, failAt)

SpecScan == InitScan /\ [][NextScan]_vars

\* ---- the life of the plugin: load, the cleanup timer, unload ----
\* The plugin is constructed, then onload runs: it awaits loadSettings and,
\* at its end, calls setupCacheCleanup. While the plugin is loaded, lookups
\* are made, the settings tab changes the cleanup interval (its handler
\* awaits saveSettings and then calls setupCacheCleanup), and onunload may
\* run at any time between two steps. At most MaxTimers intervals are set.
MaxTimers == 3

\* setupCacheCleanup: clearInterval of the interval in the field, if any, then
\* setInterval and the field holds the new interval
SetupCacheCleanup ==
    /\ timersSet < MaxTimers
    /\ timersSet' = timersSet + 1
    /\ cacheCleanupInterval' = timersSet + 1
    /\ timers' = (timers \ {cacheCleanupInterval}) \cup {timersSet + 1}

\* onload up to its await of loadSettings
OnloadStart ==
    /\ onloadPc = "constructed"
    /\ onloadPc' = "loading"
    /\ UNCHANGED <<cacheVars, walkVars, extractVars, unloaded, settingPc,
                   cacheCleanupInterval, timers, timersSet>>

\* onload from loadSettings on: the events and commands are registered, the
\* settings tab is added, and setupCacheCleanup is called
OnloadFinish ==
    /\ onloadPc = "loading"
    /\ onloadPc' = "loaded"
    /\ SetupCacheCleanup
    /\ UNCHANGED <<cacheVars, walkVars, extractVars, unloaded, settingPc>>

\* the onChange handler of the cleanup interval setting, up to its await of
\* saveSettings (the tab is there while the plugin is loaded)
ChangeInterval ==
    /\ onloadPc = "loaded"
    /\ ~unloaded
    /\ settingPc = "idle"
    /\ settingPc' = "saving"
    /\ UNCHANGED <<cacheVars, walkVars, extractVars, onloadPc, unloaded,
                   cacheCleanupInterval, timers, timersSet>>

\* saveSettings has settled: the handler calls setupCacheCleanup
ChangeIntervalSaved ==
    /\ settingPc = "saving"
    /\ settingPc' = "idle"
    /\ SetupCacheCleanup
    /\ UNCHANGED <<cacheVars, walkVars, extractVars, onloadPc, unloaded>>

\* onunload: the three collections are cleared, and the interval in the
\* field, if any, is cleared and the field set to null
Onunload ==
    /\ onloadPc = "loaded"
    /\ ~unloaded
    /\ unloaded' = TRUE
    /\ cache' = <<>>
    /\ loadingPromises' = [d \in Docs |-> NoExt]
    /\ dirtyCache' = {}
    /\ timers' = timers \ {cacheCleanupInterval}
    /\ cacheCleanupInterval' = NoTimer
    /\ ret' = Nothing
    /\ evicted' = NoKey
    /\ UNCHANGED <<config, walkVars, extractVars, now, lastCleanupNotice, exts, call,
                   onloadPc, settingPc, timersSet>>

\* a lookup made by an event handler of the loaded plugin
LoadedGet(c, d) ==
    /\ onloadPc = "loaded"
    /\ ~unloaded
    /\ Get(c, d)

InitLife ==
    /\ files = <<"A", "B">>
    /\ maxCacheSize = 1
    /\ evicted = NoKey
    /\ now = 0
    /\ cache = <<>>
    /\ loadingPromises = [d \in Docs |-> NoExt]
    /\ dirtyCache = {}
    /\ lastCleanupNotice = 0
    /\ exts = <<>>
    /\ call = [c \in Callers |-> Idle]
    /\ ret = [c \in Callers |-> NoRet]
    /\ links = [d \in Docs |-> {}]
    /\ NoWalk
    /\ NoExtract
    /\ onloadPc = "constructed"
    /\ unloaded = FALSE
    /\ settingPc = "idle"
    /\ cacheCleanupInterval = NoTimer
    /\ timers = {}
    /\ timersSet = 0

NextLife ==
    \/ OnloadStart
    \/ OnloadFinish
    \/ ChangeInterval
    \/ ChangeIntervalSaved
    \/ Onunload
    \/ \E c \in Callers, d \in Docs : LoadedGet(c, d)
    \/ \E e \in 1..Len(exts) : ExtResolve(e)
    \/ \E e \in 1..Len(exts) : ExtReject(e)

SpecLife == InitLife /\ [][NextLife]_vars

\* ---- vocabulary of the claims ----
Pending(e) == exts[e].promise = "pending"

Suspended(c) == call[c].st # "idle"

\* the document caller c is waiting for
DocOf(c) == exts[call[c].ext].doc

Age(d) == now - MapGet(cache, d).timestamp

\* the step starts no extraction
NoExtractionStarted == Len(exts') = Len(exts)

\* C1 (as claimed): coalescing: two calls of get for the same document that
\* are suspended at the same time wait for one and the same extraction, the
\* only one started for the document
C1_Coalescing ==
    \A c1 \in Callers, c2 \in Callers :
        (Suspended(c1) /\ Suspended(c2) /\ DocOf(c1) = DocOf(c2)) => call[c1].ext = call[c2].ext

\* C2 (as claimed): at most one extraction is running for any document, in
\* every reachable state
C2_AtMostOneExtraction ==
    \A e1 \in 1..Len(exts), e2 \in 1..Len(exts) :
        (Pending(e1) /\ Pending(e2) /\ exts[e1].doc = exts[e2].doc) => e1 = e2

\* C3 (as claimed): idempotence: a get of a document whose entry was stored
\* less than cacheTimeout ago, by an extraction that no invalidation
\* overlapped, and has not been removed since, returns that entry's value
\* and starts no extraction
C3_Idempotence ==
    [][\A c \in Callers, d \in Docs :
          (Get(c, d) /\ MapHas(cache, d) /\ ~MapGet(cache, d).inv /\ Age(d) < cacheTimeout)
              => (ret'[c] = [kind |-> "hit", ext |-> MapGet(cache, d).ext] /\ NoExtractionStarted)]_vars

\* C4 (as claimed): TTL expiry: a get of a document whose stored entry is
\* older than cacheTimeout is not served from the cache but waits for an
\* extraction, and a get of a document whose entry was stored less than
\* cacheTimeout ago, with no invalidation since the get that stored it,
\* starts no extraction
C4_TtlExpiry ==
    [][\A c \in Callers, d \in Docs :
          (Get(c, d) /\ MapHas(cache, d)) =>
              /\ Age(d) > cacheTimeout => (Suspended(c)' /\ ret'[c] = NoRet)
              /\ (Age(d) < cacheTimeout /\ ~MapGet(cache, d).inv) => NoExtractionStarted]_vars

\* C9 (as claimed): when an extraction succeeds and its entry is stored, the
\* document is no longer in the dirty set, so a get that follows within
\* cacheTimeout is served from the cache
C9_DirtyCleared ==
    [][\A e \in 1..Len(exts) :
          (ExtResolve(e) /\ exts[e].race = "racing") =>
              (exts[e].doc \notin dirtyCache' /\ IsFresh(exts[e].doc)')]_vars

\* the call that started extraction e is still in its race, and in this step
\* the race ends in failure: getLinks rejects, or the timer fires
FailsInRace(e) == exts[e].race = "racing" /\ (ExtReject(e) \/ Timeout(e))

Failure == {"error", "timeout"}

\* C6 (as claimed): when the extraction started by a get fails or times out,
\* the call rejects, the loading promise of the document is deleted, the
\* cache is left as it was, and the next get of the document starts a new
\* extraction (it finds neither a fresh entry nor a loading promise)
C6_FailureLeavesNoTrace ==
    [][\A e \in 1..Len(exts) :
          FailsInRace(e) =>
              /\ \A c \in Callers :
                     (call[c].st = "own" /\ call[c].ext = e) =>
                         (ret'[c].kind \in Failure /\ ret'[c].ext = e /\ ~Suspended(c)')
              /\ loadingPromises'[exts[e].doc] = NoExt
              /\ cache' = cache
              /\ ~IsFresh(exts[e].doc)']_vars

\* C7 (as claimed): when the in-flight request of a document ends in failure,
\* every caller waiting for it receives the failure
C7_FailureReachesAllWaiters ==
    [][\A e \in 1..Len(exts) :
          FailsInRace(e) =>
              \A c \in Callers :
                  (Suspended(c) /\ call[c].ext = e) =>
                      (ret'[c].kind \in Failure /\ ret'[c].ext = e /\ ~Suspended(c)')]_vars

Entries(m) == {m[i] : i \in 1..Len(m)}

C8_ForcedRefreshBypasses ==
    [][/\ \A c \in Callers, d \in Docs :
              ForceRefresh(c, d) =>
                  /\ ~MapHas(cache', d)
                  /\ d \in dirtyCache'
                  /\ ret'[c] = NoRet
                  /\ Suspended(c)' /\ DocOf(c)' = d /\ Pending(call[c].ext)'
                  /\ call'[c].removed = EntryOf(cache, d)
       /\ \A c \in Callers :
              (Suspended(c) /\ ret'[c].kind # "none") =>
                  /\ ret'[c].ext = call[c].ext
                  /\ ret'[c].ext # call[c].removed]_vars

\* C8 witness: a call is waiting for an extraction after a forced refresh that
\* deleted an entry stored less than cacheTimeout ago
C8_Witness ==
    \E c \in Callers : Suspended(c) /\ call[c].removed # NoExt /\ now < cacheTimeout

\* C10: whenever a get is answered from the cache, the entry returned is the
\* stored entry of a document that is not in the dirty set, and its age is
\* below cacheTimeout
C10_NoStaleOrDirtyHit ==
    \A c \in Callers :
        ret[c].kind = "hit" =>
            LET d == exts[ret[c].ext].doc
            IN /\ MapHas(cache, d)
               /\ MapGet(cache, d).ext = ret[c].ext
               /\ d \notin dirtyCache
               /\ now - MapGet(cache, d).timestamp < cacheTimeout

\* C10 witness: a get of a document whose stored entry is exactly cacheTimeout
\* old was not answered from the cache: the caller started an extraction at
\* that moment and waits for it
C10_Witness ==
    \E c \in Callers :
        /\ call[c].st = "own"
        /\ exts[call[c].ext].start = now
        /\ MapHas(cache, DocOf(c))
        /\ Age(DocOf(c)) = cacheTimeout
        /\ DocOf(c) \notin dirtyCache
\* ---- the claims on the hierarchy walks ----
\* the graph has the cycle A -> B -> A
HasCycle == "B" \in links["A"] /\ "A" \in links["B"]

\* no document has two items in the list of the inward walk
OnceInward == \A i, j \in 1..Len(rendered) : rendered[i].key = rendered[j].key => i = j

\* no document has two items in the tree of the outward walk
OnceOutward == \A i, j \in 1..Len(tree) : tree[i].file = tree[j].file => i = j

\* C11 (as claimed): cycle safety: on a link graph that contains the cycle
\* A -> B -> A, the inward walk and the outward walk each come to an end, and
\* no document appears more than once in the output of either walk
C11_CycleSafety ==
    /\ [](HasCycle => (OnceInward /\ OnceOutward))
    /\ (HasCycle /\ pc = "inlinks") ~> (pc # "inlinks")
    /\ (HasCycle /\ pc = "outlinks") ~> (pc # "outlinks")

\* C12 (as claimed): depth bound: no node is reported by a walk run with
\* maxDepth = N (the inward list, the outward tree) at a depth >= N
C12_DepthBound ==
    [][/\ \A failAt \in 0..Len(files) :
              InwardFinish(failAt) => \A i \in 1..Len(rendered') : rendered'[i].depth < depthArg
       /\ \A i \in 1..Len(tree') : tree'[i].depth < depthArg']_vars

\* C12 (amended): a walk run with maxDepth = N expands no node at a depth
\* >= N, and every node it reports is at a depth from 1 to N: the nodes found
\* by expanding depth N - 1 are reported at depth N and not expanded
C12_DepthBoundInclusive ==
    [][/\ \A failAt \in 0..Len(files) :
              InwardFinish(failAt) =>
                  \A i \in 1..Len(rendered') :
                      rendered'[i].depth >= 1 /\ rendered'[i].depth <= depthArg
       /\ \A i \in 1..Len(tree') : tree'[i].depth >= 1 /\ tree'[i].depth <= depthArg'
       /\ \A i \in 1..Len(expanded') : expanded'[i].depth < depthArg']_vars

\* C12 witness: a build has ended whose outward walk reported a node at the
\* depth it was run with, and whose inward walk, run with depth 2 or more,
\* reported a node at depth 2
C12_Witness ==
    /\ pc = "done"
    /\ \E i \in 1..Len(tree) : tree[i].depth = depthArg
    /\ \E i \in 1..Len(rendered) : rendered[i].depth = 2
    /\ inlinksDepth = 2

\* C18: no re-expansion: within one walk no document is expanded twice
C18_NoReExpansion ==
    \A i, j \in 1..Len(expanded) : expanded[i].file = expanded[j].file => i = j

\* C18 witness: the inward walk has expanded a document that is still in the
\* queue, enqueued a second time through another path
C18_Witness ==
    /\ pc = "inlinks"
    /\ \E i \in 1..Len(inlinkQueue), j \in 1..Len(expanded) :
           /\ expanded[j].file = inlinkQueue[i].file
           /\ inlinkQueue[i].depth > expanded[j].depth
           /\ inlinkQueue[i].depth < depthArg

\* the position of key k in the map m
Pos(m, k) == CHOOSE i \in 1..Len(m) : m[i].key = k

\* C13: inlink ordering: the list the inward walk renders holds the entries
\* of the inlink map, each once, in non-increasing order of depth, and two
\* entries of equal depth are in the order in which they were inserted into
\* the map
C13_InlinkOrdering ==
    [][\A failAt \in 0..Len(files) :
          (InwardFinish(failAt) /\ failAt = 0) =>
              /\ Len(rendered') = Len(inlinkMap)
              /\ Entries(rendered') = Entries(inlinkMap)
              /\ \A i, j \in 1..Len(rendered') :
                     i < j =>
                         /\ rendered'[i].depth >= rendered'[j].depth
                         /\ rendered'[i].depth = rendered'[j].depth =>
                                Pos(inlinkMap, rendered'[i].key) < Pos(inlinkMap, rendered'[j].key)]_vars

\* C13 witness: inlinks inserted at depths 2, 1, 1, 3 have been rendered: the
\* depth 3 entry, the depth 2 entry, then the two depth 1 entries in the order
\* of their insertion
C13_Witness ==
    /\ pc = "outlinks"
    /\ Len(inlinkMap) = 4
    /\ [i \in 1..4 |-> inlinkMap[i].depth] = <<2, 1, 1, 3>>
    /\ rendered = <<inlinkMap[4], inlinkMap[1], inlinkMap[2], inlinkMap[3]>>

\* the chain: B links to A, C links to B
Chain == links = [d \in {"A", "B", "C"} |-> IF d = "B" THEN {"A"} ELSE IF d = "C" THEN {"B"} ELSE {}]

\* C14: chain scenario: in the corpus {A, B, C} where B links to A and C
\* links to B, the inward walk from A with maxDepth = 2 returns 2 and lists
\* C at depth 2, then B at depth 1
C14_ChainScenario ==
    [][\A failAt \in 0..Len(files) :
          (InwardFinish(failAt) /\ failAt = 0 /\ Chain /\ file = "A" /\ depthArg = 2) =>
              /\ inlinksDepth' = 2
              /\ rendered' = <<[key |-> "C", depth |-> 2], [key |-> "B", depth |-> 1]>>]_vars

\* C14 witness: the build of the hierarchy of A on the chain, started with
\* maxDepth 2, has ended, and its inward walk listed C, then B
C14_Witness ==
    /\ Chain
    /\ file = "A"
    /\ pc = "done"
    /\ maxDepth = 2
    /\ inlinksDepth = 2
    /\ rendered = <<[key |-> "C", depth |-> 2], [key |-> "B", depth |-> 1]>>

\* C15: the value the inward walk returns is the largest depth of a node in
\* its list, and it is 0 exactly when the list is empty
C15_ReturnsMaxDepth ==
    [][\A failAt \in 0..Len(files) :
          (InwardFinish(failAt) /\ failAt = 0) =>
              /\ \A i \in 1..Len(rendered') : rendered'[i].depth <= inlinksDepth'
              /\ rendered' # <<>> => \E i \in 1..Len(rendered') : rendered'[i].depth = inlinksDepth'
              /\ (inlinksDepth' = 0) <=> (rendered' = <<>>)]_vars

\* C15 witness: the inward walk returned 2, and the node listed at depth 2
\* links to the start document itself: its entry, first set at depth 1, was
\* set again at depth 2
C15_Witness ==
    /\ pc = "done"
    /\ inlinksDepth = 2
    /\ \E i \in 1..Len(rendered) : rendered[i].depth = 2 /\ file \in links[rendered[i].key]

\* s is a prefix of t
IsPrefix(s, t) == Len(s) <= Len(t) /\ \A i \in 1..Len(s) : s[i] = t[i]

C17_OutwardBudget ==
    [][/\ \A failAt \in 0..Len(files) :
              (InwardFinish(failAt) /\ failAt = 0) =>
                  /\ depthArg' >= 1
                  /\ maxDepth - inlinksDepth' >= 1 => depthArg' = maxDepth - inlinksDepth'
                  /\ maxDepth - inlinksDepth' < 1 => depthArg' = 1
       /\ pc' = "done" =>
              \A k \in 1..Len(Outlinks(file)) :
                  Outlinks(file)[k] # file =>
                  \E i \in 1..Len(tree') :
                      LET d == Outlinks(file)[k] IN
                      tree'[i].file = d /\ tree'[i].parent = 0 /\ tree'[i].depth = 1]_vars

\* C17 witness: a build has ended in which the inward walk returned the whole
\* configured depth, the outward walk ran with depth 1, and the outlinks of
\* the start document are shown
C17_Witness ==
    /\ pc = "done"
    /\ inlinksDepth = maxDepth
    /\ depthArg = 1
    /\ tree # <<>>

\* C19 (as claimed): rebuildAll leaves the cache and the dirty set empty,
\* drops every loading promise there was, and starts an extraction for every
\* document of the vault
C19_RebuildAll ==
    [][\A view \in BOOLEAN :
          Rebuild(view) =>
              /\ cache' = <<>>
              /\ dirtyCache' = {}
              /\ \A d \in Docs :
                     \E e \in (Len(exts) + 1)..Len(exts') :
                         exts'[e].doc = d /\ Pending(e)' /\ loadingPromises'[d] = e]_vars

\* C20: one run of the cleanup deletes every entry older than cacheTimeout,
\* keeps every other entry, in place, and changes neither the loading
\* promises nor the dirty set
C20_CleanupExact ==
    [][\A show \in BOOLEAN :
          Cleanup(show) =>
              /\ Entries(cache') = {x \in Entries(cache) : now - x.timestamp <= cacheTimeout}
              /\ \A i, j \in 1..Len(cache') :
                     i < j => Pos(cache, cache'[i].key) < Pos(cache, cache'[j].key)
              /\ loadingPromises' = loadingPromises
              /\ dirtyCache' = dirtyCache]_vars

\* C20 witness: a cleanup has just deleted an expired entry (it set the time
\* of its notice) and kept an entry whose age is exactly cacheTimeout, while
\* a loading promise is pending and a document is dirty
C20_Witness ==
    /\ now > 0
    /\ lastCleanupNotice = now
    /\ \E i \in 1..Len(cache) : now - cache[i].timestamp = cacheTimeout
    /\ \E d \in Docs : loadingPromises[d] # NoExt
    /\ dirtyCache # {}

\* ---- the claims on cleanup, refresh and the lookup's frame ----
\* a cleanup notice is shown in this step: the time of the last notice moves
NoticeShown == lastCleanupNotice' # lastCleanupNotice

\* C21: cleanup notification rate limit: lastCleanupNotice is the time of the
\* last notice (only a cleanup run that shows a notice sets it, to the
\* current time); a notice is shown only by a run that removed at least one
\* entry with showCacheCleanupNotice on, and only when more than the cooldown
\* has passed since the last notice, so no two notices fall within one
\* cooldown window
C21_NoticeRateLimit ==
    [][/\ NoticeShown => ((\E show \in BOOLEAN : Cleanup(show)) /\ lastCleanupNotice' = now)
       /\ Cleanup(FALSE) => ~NoticeShown
       /\ (Cleanup(TRUE) /\ NoticeShown) =>
              /\ Len(cache') < Len(cache)
              /\ now - lastCleanupNotice > CLEANUP_NOTICE_COOLDOWN]_vars

\* C21 witness: a cleanup run has just shown a notice, and the cache still
\* holds an entry that will expire within the cooldown
C21_Witness ==
    /\ now > NoticeNow
    /\ lastCleanupNotice = now
    /\ \E i \in 1..Len(cache) : now - cache[i].timestamp = cacheTimeout

\* C22 (as claimed): the Refresh button updates the link data: the lookup
\* that the click makes is not answered with the entry cached before the
\* click; the caller waits for an extraction that is started by the click
\* itself, so that it reads the store after the click
C22_RefreshUpdates ==
    [][\A c \in Callers, d \in Docs :
          RefreshClick(c, d) =>
              /\ ret'[c].kind # "hit"
              /\ ~MapHas(cache', d)
              /\ Suspended(c)'
              /\ DocOf(c)' = d
              /\ call'[c].ext > Len(exts)]_vars

\* C23 (as claimed): one staleness threshold: an entry is stale exactly when
\* now - timestamp > cacheTimeout, for the lookup and for the cleanup alike: a
\* get of a non-dirty entry is answered from the cache exactly when the entry
\* is not stale (an entry exactly cacheTimeout old included), and a cleanup
\* keeps exactly the entries that are not stale
C23_OneThreshold ==
    [][/\ \A c \in Callers, d \in Docs :
              (Get(c, d) /\ MapHas(cache, d) /\ d \notin dirtyCache) =>
                  ((ret'[c].kind = "hit") <=> ~(Age(d) > cacheTimeout))
       /\ \A show \in BOOLEAN :
              Cleanup(show) =>
                  \A d \in Keys(cache) : MapHas(cache', d) <=> ~(Age(d) > cacheTimeout)]_vars

\* C23 (amended): two thresholds: a get of a non-dirty entry is answered from
\* the cache exactly when now - timestamp < cacheTimeout, and a cleanup
\* deletes exactly the entries with now - timestamp > cacheTimeout; an entry
\* exactly cacheTimeout old is kept by the cleanup but not served: the get
\* waits for an extraction
C23_TwoThresholds ==
    [][/\ \A c \in Callers, d \in Docs :
              (Get(c, d) /\ MapHas(cache, d) /\ d \notin dirtyCache) =>
                  /\ (ret'[c].kind = "hit") <=> (Age(d) < cacheTimeout)
                  /\ Age(d) = cacheTimeout => (Suspended(c)' /\ DocOf(c)' = d)
       /\ \A show \in BOOLEAN :
              Cleanup(show) =>
                  \A d \in Keys(cache) : MapHas(cache', d) <=> (Age(d) <= cacheTimeout)]_vars

\* C23 witness: at one and the same time a cleanup has deleted an expired
\* entry and kept an entry exactly cacheTimeout old, and a get of the entry
\* it kept was not answered from the cache: the caller started an extraction
C23_Witness ==
    /\ now > 0
    /\ lastCleanupNotice = now
    /\ \E c \in Callers :
           /\ call[c].st = "own"
           /\ exts[call[c].ext].start = now
           /\ MapHas(cache, DocOf(c))
           /\ Age(DocOf(c)) = cacheTimeout
           /\ DocOf(c) \notin dirtyCache

\* C24: a cache hit has no effect: a get that finds a non-dirty entry less
\* than cacheTimeout old returns that entry's value, starts no extraction,
\* and leaves the cache (the entry's timestamp and position included), the
\* loading promises and the dirty set as they were, so the entry that an
\* eviction would pick is the same before and after
C24_HitHasNoEffect ==
    [][\A c \in Callers, d \in Docs :
          (Get(c, d) /\ MapHas(cache, d) /\ d \notin dirtyCache /\ Age(d) < cacheTimeout) =>
              /\ ret'[c] = [kind |-> "hit", ext |-> MapGet(cache, d).ext]
              /\ NoExtractionStarted
              /\ cache' = cache
              /\ loadingPromises' = loadingPromises
              /\ dirtyCache' = dirtyCache
              /\ call' = call
              /\ OldestKey(cache') = OldestKey(cache)]_vars

\* C24 witness: a get has just been answered from the cache with the oldest
\* of two entries, which is still the oldest
C24_Witness ==
    /\ Len(cache) = 2
    /\ cache[1].timestamp # cache[2].timestamp
    /\ \E c \in Callers :
           /\ ret[c].kind = "hit"
           /\ MapGet(cache, OldestKey(cache)).ext = ret[c].ext
           /\ now > MapGet(cache, OldestKey(cache)).timestamp

\* C25: invalidate(doc) deletes the entry of doc and adds doc to the dirty
\* set, and nothing else: the entries of the other documents stay, in their
\* order, the other dirty flags stay, and no loading promise changes, not
\* even the one of doc
C25_InvalidateFrame ==
    [][\A d \in Docs :
          Invalidate(d) =>
              /\ ~MapHas(cache', d)
              /\ Entries(cache') = {x \in Entries(cache) : x.key # d}
              /\ \A i, j \in 1..Len(cache') :
                     i < j => Pos(cache, cache'[i].key) < Pos(cache, cache'[j].key)
              /\ dirtyCache' = dirtyCache \cup {d}
              /\ loadingPromises' = loadingPromises
              /\ call' = call
              /\ lastCleanupNotice' = lastCleanupNotice]_vars

\* C25 witness: a document has been invalidated while its extraction was
\* pending: it is dirty and has no entry, its loading promise is still there,
\* and the entry of another document is still in the cache
C25_Witness ==
    \E d \in Docs :
        /\ d \in dirtyCache
        /\ ~MapHas(cache, d)
        /\ loadingPromises[d] # NoExt
        /\ exts[loadingPromises[d]].inv
        /\ cache # <<>>

\* ---- the claims on canvas boards, attachments and the order of a walk ----
\* C26: the outward walk never expands a canvas board: a queue item whose
\* document is a canvas board is dropped from the queue and nothing else
\* happens: it is not added to processedLinks, no lookup is made for it (so
\* none can throw), and no item is attached under it
C26_NoCanvasExpansion ==
    [][\A failAt \in 0..(1 + Len(files)) :
          (OutwardStep(failAt) /\ Head(queue).file \in boards) =>
              /\ queue' = Tail(queue)
              /\ processedLinks' = processedLinks
              /\ expanded' = expanded
              /\ tree' = tree
              /\ failed' = failed
              /\ pc' = pc]_vars

\* C26 witness: the hierarchy of a canvas board that a note links to has been
\* built: the outward walk ended without visiting or expanding anything
C26_Witness ==
    /\ pc = "done"
    /\ file \in boards
    /\ \E d \in Docs : file \in links[d]
    /\ processedLinks = {}
    /\ expanded = <<>>
    /\ tree = <<>>

\* C27: within one outward walk each attachment of a document is reported at
\* most once for that document: no two reports of the walk have the same
\* document and the same attachment, whichever items they are shown under
C27_AttachmentsOnce ==
    \A i \in 1..Len(attached), j \in 1..Len(attached) :
        (attached[i].file = attached[j].file /\ attached[i].name = attached[j].name)
            => i = j

\* C27 witness: a walk has ended in which a document with attachments was
\* listed as a child under two parents and expanded as well, and each of its
\* attachments has been reported, under the first of its items only
C27_Witness ==
    /\ pc = "done"
    /\ \E d \in Docs :
          /\ attachments[d] # <<>>
          /\ \E i \in 1..Len(tree), j \in 1..Len(tree) :
                /\ i < j
                /\ tree[i].file = d
                /\ tree[j].file = d
                /\ tree[i].parent # tree[j].parent
                /\ \A k \in 1..Len(attached) :
                      attached[k].file = d => attached[k].element = i
          /\ \E k \in 1..Len(expanded) : expanded[k].file = d
          /\ \A n \in 1..Len(attachments[d]) :
                \E k \in 1..Len(attached) :
                    attached[k].file = d /\ attached[k].name = attachments[d][n]

C29_WalkStateMachine ==
    /\ [][(pc = "done") => (pc' = "done" /\ queue' = queue /\ inlinkQueue' = inlinkQueue)]_vars
    /\ [][(pc \in {"outlinks", "done"}) => (inlinkQueue' = inlinkQueue)]_vars
    /\ (pc = "inlinks") ~> (inlinkQueue = <<>>)
    /\ (pc = "outlinks") ~> (queue = <<>>)

\* the links written in the note, whether in the body, as embeds or in the
\* frontmatter
WrittenPaths ==
    IF written = NoFileCache THEN {}
    ELSE {written.links[i].path : i \in 1..Len(written.links)}
         \cup {written.embeds[i].path : i \in 1..Len(written.embeds)}
         \cup {written.frontmatter[i].path : i \in 1..Len(written.frontmatter)}

\* C30: an extraction whose read succeeds resolves, whatever links are
\* written in the note; then every link, embed or frontmatter link whose path
\* names a file is in canvasLinks if that file is a canvas board and in
\* outlinks otherwise, and a link whose path names no file is in neither
C30_LinkClassification ==
    /\ [][\A f \in Docs : GetLinks(f, 0) => linkData'[1].status = "resolved"]_vars
    /\ [](linkData # NoLinkData /\ linkData[1].status = "resolved" =>
            LET outs == {linkData[1].outlinks[i] : i \in 1..Len(linkData[1].outlinks)}
                cans == {linkData[1].canvasLinks[i] : i \in 1..Len(linkData[1].canvasLinks)}
            IN /\ \A p \in WrittenPaths \cap Docs :
                     IF p \in boards THEN p \in cans /\ p \notin outs
                     ELSE p \in outs /\ p \notin cans
               /\ outs \cup cans \subseteq WrittenPaths \cap Docs)

\* C30 witness: an extraction has resolved for a note in which a link to a
\* note with a heading, a link to a board and a link to no file are written,
\* one of them in the frontmatter with an alias
C30_Witness ==
    /\ linkData # NoLinkData
    /\ linkData[1].status = "resolved"
    /\ written # NoFileCache
    /\ boards # {}
    /\ \E i \in 1..Len(written.links) :
          written.links[i].path \in Docs \ boards /\ written.links[i].header # ""
    /\ \E p \in WrittenPaths : p \in boards
    /\ \E p \in WrittenPaths : p \notin Docs
    /\ \E i \in 1..Len(written.frontmatter) :
          written.frontmatter[i].alias # "" /\ written.frontmatter[i].path \in Docs

\* ---- the claims on the canvas search, the timer and the size of the cache ----
\* the boards whose content holds a bracket-link to the name f
BoardsLinkingTo(f) ==
    {b \in boards : \E i \in 1..Len(canvasWritten[b]) : canvasWritten[b][i].path = <<f>>}

C32_SingleTimer ==
    /\ Cardinality(timers) <= 1
    /\ unloaded => timers = {}

\* the first half of C32 alone
C32_AtMostOne == Cardinality(timers) <= 1

\* C33: the size bound of the cache: between any two steps of get,
\* invalidate, cleanup and rebuildAll the cache holds at most maxCacheSize
\* entries
C33_CacheSizeBound == Len(cache) <= maxCacheSize

\* C33 witness: a store has just evicted an entry and the cache is full
C33_Witness ==
    /\ evicted # NoKey
    /\ Len(cache) = maxCacheSize

\* C34: the entry just stored survives the eviction: when the starter of an
\* extraction stores its result, the document is in the cache afterwards and
\* the key the eviction deleted, if any, is another one
C34_StoredSurvives ==
    [][\A e \in 1..Len(exts) :
          (ExtResolve(e) /\ exts[e].race = "racing") =>
              /\ MapHas(cache', exts[e].doc)
              /\ MapGet(cache', exts[e].doc).ext = e
              /\ evicted' # exts[e].doc]_vars

\* C34 witness: a store has evicted an entry whose timestamp is the one of
\* the entry just stored, which is still there
C34_Witness ==
    /\ evicted # NoKey
    /\ \E c \in Callers :
          /\ ret[c].kind = "value"
          /\ MapHas(cache, exts[ret[c].ext].doc)
          /\ MapGet(cache, exts[ret[c].ext].doc).ext = ret[c].ext
          /\ \A i \in 1..Len(cache) : cache[i].timestamp = now

\* C35 (as claimed): a lookup after an invalidation sees data from after it:
\* a get or a forced refresh of a document never waits for an extraction that
\* was under way when the document was invalidated, and is never answered
\* with an entry such an extraction stored
C35_PostInvalidationData ==
    [][\A c \in Callers, d \in Docs :
          (Get(c, d) \/ ForceRefresh(c, d)) =>
              /\ call'[c].st # "idle" => ~exts'[call'[c].ext].inv
              /\ ret'[c].kind = "hit" => ~MapGet(cache', d).inv]_vars

\* extraction e was started by a lookup that is still waiting for it, and the
\* in-flight map no longer holds it: rebuildCache or onunload cleared the map
Orphaned(e) ==
    /\ Pending(e)
    /\ exts[e].race = "racing"
    /\ loadingPromises[exts[e].doc] # e

\* C36 (as claimed): no write from an orphaned extraction: when an extraction
\* that was started before the cache and the in-flight map were cleared
\* settles, the cache stays as it is and so does the in-flight map, the
\* marker of an extraction started after the clear included
C36_NoOrphanWrite ==
    [][\A e \in 1..Len(exts) :
          (Orphaned(e) /\ (ExtResolve(e) \/ ExtReject(e))) =>
              /\ cache' = cache
              /\ loadingPromises' = loadingPromises]_vars

\* ---- the claims on the depths and the nodes of a hierarchy ----
\* the documents from which the start document t is reached by a chain of k links
RECURSIVE ChainsTo(_, _)
ChainsTo(t, k) ==
    IF k = 0 THEN {t}
    ELSE {s \in Docs : \E x \in ChainsTo(t, k - 1) : x \in links[s]}

\* the length of the shortest chain of links from d to t, 0 if there is none
ShortestChain(d, t) ==
    IF \E k \in 1..Len(files) : d \in ChainsTo(t, k)
    THEN CHOOSE k \in 1..Len(files) :
             d \in ChainsTo(t, k) /\ \A j \in 1..(k - 1) : d \notin ChainsTo(t, j)
    ELSE 0

\* C37 (as claimed): the inward list reports every document at the length of
\* the shortest chain of inlinks from it to the start document
C37_ShortestDepths ==
    \A i \in 1..Len(rendered) : rendered[i].depth = ShortestChain(rendered[i].key, file)

\* C38: the start document never appears in its own hierarchy: it is not an
\* item of the inward list, nor of the map the list is made from, nor a child
\* in the outward tree
C38_StartNotInHierarchy ==
    /\ \A i \in 1..Len(rendered) : pc # "idle" => rendered[i].key # file
    /\ \A i \in 1..Len(inlinkMap) : inlinkMap[i].key # file
    /\ \A i \in 1..Len(tree) : tree[i].file # file

\* C38 witness: a build has ended for a start document that links to itself
\* and lies on a cycle with another document; both the inward list and the
\* outward tree have items
C38_Witness ==
    /\ pc = "done"
    /\ file \in links[file]
    /\ \E d \in Docs \ {file} : d \in links[file] /\ file \in links[d]
    /\ depthArg >= 2
    /\ rendered # <<>>
    /\ tree # <<>>

\* C39 (as claimed): the outward tree has no duplicate node: no document is
\* attached as a child twice in one outward walk
C39_NoDuplicateChild ==
    \A i \in 1..Len(tree), j \in 1..Len(tree) : tree[i].file = tree[j].file => i = j

====
